---- MODULE Spec2Model ----
(***************************************************************************)
(* pdf_to_markdown.py: convert_pdf_to_markdown and main, modelled as a     *)
(* state machine over a small filesystem.  Paths and file names are        *)
(* sequences of one-character strings, so that suffix, stem, lower() and   *)
(* the f-string "{base}_page_{n:03d}.md" are computed, not assumed.        *)
(***************************************************************************)
EXTENDS Integers, Sequences, FiniteSets, TLC

\* ---- bounds of the model ------------------------------------------------
MaxPages == 2
MaxRuns == 2

\* ---- characters, names, paths -------------------------------------------
None == <<>>

Dot == <<".">>
DirA == <<"a">>
DirAO == <<"a", "/", "o">>
ImagesName == <<"i", "m", "a", "g", "e", "s">>
NotesMd == <<"n", ".", "m", "d">>

SourceNames ==
    { <<"R", ".", "P", "d", "F">>,
      <<"a", ".", "b", ".", "p", "d", "f">>,
      <<"r", ".", "t", "x", "t">>,
      <<".", "p", "d", "f">>,
      <<"p", "d", "f">> }

Texts == {"t1", "t2"}

\* str.lower() on one character
UpperToLower ==
    [c \in {"A", "B", "D", "F", "P", "R", "T", "X"} |->
        CASE c = "A" -> "a" [] c = "B" -> "b" [] c = "D" -> "d"
          [] c = "F" -> "f" [] c = "P" -> "p" [] c = "R" -> "r"
          [] c = "T" -> "t" [] c = "X" -> "x"]

LowerChar(c) == IF c \in DOMAIN UpperToLower THEN UpperToLower[c] ELSE c

\* the comparison made without lower(): the suffix is taken as written
LowerIdentity(s) == s

Lower(s) == [i \in 1..Len(s) |-> LowerChar(s[i])]

\* str.rfind('.') as a 1-based position, 0 when there is no dot
RFindDot(s) ==
    IF \E i \in 1..Len(s) : s[i] = "."
    THEN CHOOSE i \in 1..Len(s) :
            s[i] = "." /\ \A j \in (i+1)..Len(s) : s[j] # "."
    ELSE 0

\* PurePath.suffix: the last dot counts unless it leads or ends the name
Suffix(name) ==
    LET i == RFindDot(name)
    IN IF 1 < i /\ i < Len(name) THEN SubSeq(name, i, Len(name)) ELSE <<>>

\* PurePath.stem
Stem(name) ==
    LET i == RFindDot(name)
    IN IF 1 < i /\ i < Len(name) THEN SubSeq(name, 1, i - 1) ELSE name

DigitChar == <<"0", "1", "2", "3", "4", "5", "6", "7", "8", "9">>

RECURSIVE Digits(_)
Digits(n) ==
    IF n < 10 THEN <<DigitChar[n + 1]>>
    ELSE Digits(n \div 10) \o <<DigitChar[(n % 10) + 1]>>

RECURSIVE ZeroPad(_, _)
ZeroPad(s, w) == IF Len(s) >= w THEN s ELSE ZeroPad(<<"0">> \o s, w)

\* format spec 03d
Format03d(n) == ZeroPad(Digits(n), 3)

\* the file is numbered by page index instead of page number
OutputFilenameZeroBased(base, pageNum) ==
    base \o <<"_", "p", "a", "g", "e", "_">> \o Format03d(pageNum)
         \o <<".", "m", "d">>

\* f"{base_name}_page_{page_num + 1:03d}.md"
OutputFilename(base, pageNum) ==
    base \o <<"_", "p", "a", "g", "e", "_">> \o Format03d(pageNum + 1)
         \o <<".", "m", "d">>

\* Path.__truediv__ followed by str(): "." is dropped as a prefix
Join(dir, name) == IF dir = Dot THEN name ELSE dir \o <<"/">> \o name

\* Path.parent for the paths of the model
ParentOf(p) ==
    CASE p = DirAO -> DirA
      [] p = Join(DirAO, ImagesName) -> DirAO
      [] OTHER -> Dot

OutDirs == {Dot, DirAO}
AllDirs == {Dot, DirA, DirAO, Join(Dot, ImagesName), Join(DirAO, ImagesName)}

\* ---- exceptions ---------------------------------------------------------
NoExc == "none"

\* the base class of each exception class the model raises
BaseOf ==
    [c \in {"FileNotFoundError", "FileExistsError", "NotADirectoryError",
            "PermissionError", "OSError", "UnicodeEncodeError", "ValueError",
            "FileDataError", "RuntimeError", "Exception"} |->
        CASE c \in {"FileNotFoundError", "FileExistsError",
                    "NotADirectoryError", "PermissionError"} -> "OSError"
          [] c = "UnicodeEncodeError" -> "ValueError"
          [] c = "FileDataError" -> "RuntimeError"
          [] c \in {"OSError", "ValueError", "RuntimeError"} -> "Exception"
          [] OTHER -> "BaseException"]

\* isinstance(e, cls), as an except clause decides it
RECURSIVE IsInstance(_, _)
IsInstance(e, cls) ==
    IF e = cls THEN TRUE
    ELSE IF e \notin DOMAIN BaseOf THEN FALSE
    ELSE IsInstance(BaseOf[e], cls)

RenderExceptions == {"RuntimeError", "ValueError"}

\* write_text failing before the file is opened, or after open(mode='w')
\* has truncated it
WriteFailures ==
    { [exc |-> "PermissionError", truncated |-> FALSE],
      [exc |-> "UnicodeEncodeError", truncated |-> TRUE] }

\* ---- Path.mkdir ---------------------------------------------------------
\* os.mkdir(p) is refused for the paths in denied
RECURSIVE Mkdir(_, _, _, _, _)
Mkdir(k, p, parents, exist_ok, denied) ==
    IF k[p] # "absent"
    THEN IF exist_ok /\ k[p] = "dir"
         THEN [kind |-> k, exc |-> NoExc]
         ELSE [kind |-> k, exc |-> "FileExistsError"]
    ELSE IF k[ParentOf(p)] = "file"
    THEN [kind |-> k, exc |-> "NotADirectoryError"]
    ELSE IF k[ParentOf(p)] = "absent"
    THEN IF ~parents
         THEN [kind |-> k, exc |-> "FileNotFoundError"]
         ELSE LET r == Mkdir(k, ParentOf(p), TRUE, TRUE, denied)
              IN IF r.exc # NoExc THEN r
                 ELSE Mkdir(r.kind, p, FALSE, exist_ok, denied)
    ELSE IF p \in denied
    THEN [kind |-> k, exc |-> "PermissionError"]
    ELSE [kind |-> [k EXCEPT ![p] = "dir"], exc |-> NoExc]

\* mkdir(parents=True) without exist_ok
MkdirCallNoExistOk(k, p, denied) == Mkdir(k, p, TRUE, FALSE, denied)

\* output_dir.mkdir(parents=True, exist_ok=True), images_dir.mkdir(...)
MkdirCall(k, p, denied) == Mkdir(k, p, TRUE, TRUE, denied)

\* ---- state ----------------------------------------------------------------
VARIABLES
    argv,           \* the command line the tool is run with, every time
    src,            \* what the filesystem has at argv[1]: kind and pages
    kind,           \* directory path -> "absent" | "dir" | "file"
    files,          \* output directory -> (file name -> content)
    imgs,           \* output directory -> pages whose images are in images/
    pc,             \* position in main / convert_pdf_to_markdown
    pdf_path,       \* sys.argv[1]
    output_dir_arg, \* sys.argv[2] or None
    output_dir,     \* the local output_dir once resolved
    base_name,
    docOpen,        \* the pymupdf handle is open
    total_pages,
    page_num,
    markdown_text,
    output_files,
    exc,            \* the exception in flight
    ret,            \* what convert_pdf_to_markdown returned
    stdout,         \* the lines printed, by their fixed prefix
    exitStatus,     \* -1 while the process runs
    events,         \* the side effects attempted in this run, in order
    rendered,       \* page index -> the text to_markdown returned in this run
    kind0, files0, imgs0,   \* the filesystem when this run started
    prev,           \* arguments and result of the previous run
    runs

fsVars == <<argv, src, kind, files, imgs>>
localVars == <<pdf_path, output_dir_arg, output_dir, base_name, docOpen,
               total_pages, page_num, markdown_text, output_files>>
resultVars == <<exc, ret, stdout, exitStatus>>
ghostVars == <<events, rendered, kind0, files0, imgs0, prev, runs>>
vars == <<fsVars, pc, localVars, resultVars, ghostVars>>

EmptyFiles == [n \in {} |-> ""]
NoRet == [returned |-> FALSE, value |-> <<>>]
NoPrev == [ran |-> FALSE, ret |-> NoRet]

Event(op, pages, path, wi) ==
    [op |-> op, pages |-> pages, path |-> path, write_images |-> wi]

\* the directory contents a run can find when it starts
InitialDirs ==
    { \* nothing there yet
      [k |-> [d \in AllDirs |-> IF d = Dot THEN "dir" ELSE "absent"],
       f |-> [d \in OutDirs |-> EmptyFiles]],
      \* both output directories in use, with an unrelated Markdown file
      [k |-> [d \in AllDirs |-> "dir"],
       f |-> [d \in OutDirs |-> (NotesMd :> "n")]],
      \* the output directory and the images directory are regular files
      [k |-> [d \in AllDirs |->
                IF d \in {Dot, DirA} THEN "dir"
                ELSE IF d = DirAO THEN "file"
                ELSE IF d = Join(Dot, ImagesName) THEN "file" ELSE "absent"],
       f |-> [d \in OutDirs |-> EmptyFiles]] }

Sources ==
    { [kind |-> "file", pages |-> p] : p \in 0..MaxPages }
    \cup { [kind |-> "dir", pages |-> 0], [kind |-> "missing", pages |-> 0] }

\* the existence check left out
ExistsUnchecked(p) == TRUE

\* Path.exists(): true of a directory as well as of a regular file
Exists(p) == p = argv.pdf_path /\ src.kind # "missing"

Init ==
    /\ argv \in [pdf_path : SourceNames, output_dir : {None, DirAO}]
    /\ src \in Sources
    /\ \E d \in InitialDirs :
          /\ kind = d.k
          /\ files = d.f
          /\ kind0 = d.k
          /\ files0 = d.f
    /\ imgs = [d \in OutDirs |-> {}]
    /\ imgs0 = [d \in OutDirs |-> {}]
    /\ pc = "idle"
    /\ pdf_path = None
    /\ output_dir_arg = None
    /\ output_dir = None
    /\ base_name = None
    /\ docOpen = FALSE
    /\ total_pages = 0
    /\ page_num = 0
    /\ markdown_text = ""
    /\ output_files = <<>>
    /\ exc = NoExc
    /\ ret = NoRet
    /\ stdout = <<>>
    /\ exitStatus = -1
    /\ events = <<>>
    /\ rendered = [i \in {} |-> ""]
    /\ prev = NoPrev
    /\ runs = 1

\* the exception is swallowed and the function returns what it has
RaiseAndReturn(e) ==
    /\ exc' = e
    /\ pc' = "return"

Raise(e) ==
    /\ exc' = e
    /\ pc' = "except"

\* ---- main ---------------------------------------------------------------
\* main, len(sys.argv) < 2: print the usage text and exit 1
Usage ==
    /\ pc = "idle"
    /\ stdout' = Append(stdout, "usage")
    /\ exitStatus' = 1
    /\ pc' = "exited"
    /\ UNCHANGED <<fsVars, localVars, exc, ret, ghostVars>>

\* main reads sys.argv and calls convert_pdf_to_markdown, which wraps
\* pdf_path in a Path
Start ==
    /\ pc = "idle"
    /\ pdf_path' = argv.pdf_path
    /\ output_dir_arg' = argv.output_dir
    /\ pc' = "exists"
    /\ UNCHANGED <<fsVars, output_dir, base_name, docOpen, total_pages,
                   page_num, markdown_text, output_files, resultVars,
                   ghostVars>>

\* ---- convert_pdf_to_markdown --------------------------------------------
\* if not pdf_path.exists(): raise FileNotFoundError
CheckExists ==
    /\ pc = "exists"
    /\ IF ~Exists(pdf_path)
       THEN Raise("FileNotFoundError")
       ELSE /\ pc' = "suffix"
            /\ exc' = exc
    /\ UNCHANGED <<fsVars, localVars, ret, stdout, exitStatus, ghostVars>>

\* if not pdf_path.suffix.lower() == '.pdf': raise ValueError
CheckSuffix ==
    /\ pc = "suffix"
    /\ IF ~(Lower(Suffix(pdf_path)) = <<".", "p", "d", "f">>)
       THEN Raise("ValueError")
       ELSE /\ pc' = "outdir"
            /\ exc' = exc
    /\ UNCHANGED <<fsVars, localVars, ret, stdout, exitStatus, ghostVars>>

\* output_dir defaults to pdf_path.parent, else it is created with parents
ResolveOutputDir ==
    /\ pc = "outdir"
    /\ IF output_dir_arg = None
       THEN /\ output_dir' = Dot
            /\ pc' = "open"
            /\ UNCHANGED <<kind, exc, events>>
       ELSE \E denied \in SUBSET {output_dir_arg, ParentOf(output_dir_arg)} :
              LET r == MkdirCall(kind, output_dir_arg, denied)
              IN /\ output_dir' = output_dir_arg
                 /\ kind' = r.kind
                 /\ events' = Append(events,
                                Event("mkdir", <<>>, output_dir_arg, FALSE))
                 /\ IF r.exc = NoExc
                    THEN /\ pc' = "open"
                         /\ exc' = exc
                    ELSE Raise(r.exc)
    /\ UNCHANGED <<argv, src, files, imgs, pdf_path, output_dir_arg, base_name,
                   docOpen, total_pages, page_num, markdown_text,
                   output_files, ret, stdout, exitStatus, rendered, kind0,
                   files0, imgs0, prev, runs>>

\* base_name = pdf_path.stem; doc = pymupdf.open(str(pdf_path))
OpenDoc ==
    /\ pc = "open"
    /\ base_name' = Stem(pdf_path)
    /\ events' = Append(events, Event("open", <<>>, pdf_path, FALSE))
    /\ \/ /\ src.kind = "file"
          /\ docOpen' = TRUE
          /\ pc' = "len"
          /\ exc' = exc
       \/ /\ docOpen' = docOpen
          /\ Raise("FileDataError")
    /\ UNCHANGED <<fsVars, pdf_path, output_dir_arg, output_dir, total_pages,
                   page_num, markdown_text, output_files, ret, stdout,
                   exitStatus, rendered, kind0, files0, imgs0, prev, runs>>

\* total_pages = len(doc)
CountPages ==
    /\ pc = "len"
    /\ total_pages' = src.pages
    /\ pc' = "close"
    /\ UNCHANGED <<fsVars, pdf_path, output_dir_arg, output_dir, base_name,
                   docOpen, page_num, markdown_text, output_files,
                   resultVars, ghostVars>>

\* the handle is never closed
CloseDocLeavesOpen ==
    /\ pc = "close"
    /\ pc' = "images"
    /\ UNCHANGED <<fsVars, localVars, resultVars, ghostVars>>

\* doc.close()
CloseDoc ==
    /\ pc = "close"
    /\ docOpen' = FALSE
    /\ events' = Append(events, Event("close", <<>>, pdf_path, FALSE))
    /\ pc' = "images"
    /\ UNCHANGED <<fsVars, pdf_path, output_dir_arg, output_dir, base_name,
                   total_pages, page_num, markdown_text, output_files,
                   resultVars, rendered, kind0, files0, imgs0, prev, runs>>

images_dir == Join(output_dir, ImagesName)

\* images_dir.mkdir(parents=True, exist_ok=True), the four header lines,
\* output_files = []
MakeImagesDir ==
    /\ pc = "images"
    /\ \E denied \in SUBSET {images_dir} :
          LET r == MkdirCall(kind, images_dir, denied)
          IN /\ kind' = r.kind
             /\ events' = Append(events, Event("mkdir", <<>>, images_dir, FALSE))
             /\ IF r.exc = NoExc
                THEN /\ stdout' = stdout \o <<"Converting: ", "Total pages: ",
                                             "Output directory: ",
                                             "Images directory: ">>
                     /\ output_files' = <<>>
                     /\ page_num' = 0
                     /\ pc' = "for"
                     /\ exc' = exc
                ELSE /\ Raise(r.exc)
                     /\ UNCHANGED <<stdout, output_files, page_num>>
    /\ UNCHANGED <<argv, src, files, imgs, pdf_path, output_dir_arg, output_dir,
                   base_name, docOpen, total_pages, markdown_text, ret,
                   exitStatus, rendered, kind0, files0, imgs0, prev, runs>>

\* range(total_pages - 1): the last page is left out
ForPageSkipsLast ==
    /\ pc = "for"
    /\ pc' = IF page_num < total_pages - 1 THEN "render" ELSE "return"
    /\ UNCHANGED <<fsVars, localVars, resultVars, ghostVars>>

\* for page_num in range(total_pages): the loop test
ForPage ==
    /\ pc = "for"
    /\ pc' = IF page_num < total_pages THEN "render" ELSE "return"
    /\ UNCHANGED <<fsVars, localVars, resultVars, ghostVars>>

\* markdown_text = pymupdf4llm.to_markdown(str(pdf_path), pages=[page_num],
\*                     write_images=True, image_path=str(images_dir))
RenderPage ==
    /\ pc = "render"
    /\ events' = Append(events,
                    Event("render", <<page_num>>, images_dir, TRUE))
    /\ \/ \E t \in Texts :
             /\ markdown_text' = t
             /\ rendered' = (page_num :> t) @@ rendered
             /\ imgs' = IF kind[images_dir] = "dir"
                        THEN [imgs EXCEPT ![output_dir] = @ \cup {page_num}]
                        ELSE imgs
             /\ pc' = "write"
             /\ exc' = exc
       \/ \E e \in RenderExceptions :
             /\ Raise(e)
             /\ UNCHANGED <<markdown_text, rendered, imgs>>
    /\ UNCHANGED <<argv, src, kind, files, pdf_path, output_dir_arg,
                   output_dir, base_name, docOpen, total_pages, page_num,
                   output_files,
                   ret, stdout, exitStatus, kind0, files0, imgs0, prev, runs>>

\* the file name without the page number of the iteration
output_filename_unnumbered == OutputFilename(base_name, 0)

output_filename == OutputFilename(base_name, page_num)
output_path == Join(output_dir, output_filename)

\* output_path.write_text(markdown_text, encoding='utf-8'),
\* output_files.append(str(output_path)), the progress line, and the step
\* of the for loop
WritePage ==
    /\ pc = "write"
    /\ events' = Append(events, Event("write", <<page_num>>, output_path, FALSE))
    /\ \/ /\ files' = [files EXCEPT ![output_dir] =
                          (output_filename :> markdown_text) @@ @]
          /\ output_files' = Append(output_files, output_path)
          /\ stdout' = Append(stdout, "  Page ")
          /\ page_num' = page_num + 1
          /\ pc' = "for"
          /\ exc' = exc
       \/ \E f \in WriteFailures :
             /\ files' = IF f.truncated
                         THEN [files EXCEPT ![output_dir] =
                                  (output_filename :> "") @@ @]
                         ELSE files
             /\ Raise(f.exc)
             /\ UNCHANGED <<output_files, stdout, page_num>>
    /\ UNCHANGED <<argv, src, kind, imgs, pdf_path, output_dir_arg, output_dir,
                   base_name, docOpen, total_pages, markdown_text, ret,
                   exitStatus, rendered, kind0, files0, imgs0, prev, runs>>

\* print("Successfully converted ..."); return output_files
Return ==
    /\ pc = "return"
    /\ stdout' = Append(stdout, "Successfully converted ")
    /\ ret' = [returned |-> TRUE, value |-> output_files]
    /\ pc' = "main_ok"
    /\ UNCHANGED <<fsVars, localVars, exc, exitStatus, ghostVars>>

\* ---- main, after the call -------------------------------------------------
\* main falls off its end: exit status 0
MainReturn ==
    /\ pc = "main_ok"
    /\ exitStatus' = 0
    /\ pc' = "exited"
    /\ UNCHANGED <<fsVars, localVars, exc, ret, stdout, ghostVars>>

\* the except clauses of main, tried in order
ErrorPrefix(e) ==
    IF IsInstance(e, "FileNotFoundError") THEN "Error: "
    ELSE IF IsInstance(e, "ValueError") THEN "Error: "
    ELSE "Error during conversion: "

MainExcept ==
    /\ pc = "except"
    /\ IsInstance(exc, "Exception")
    /\ stdout' = Append(stdout, ErrorPrefix(exc))
    /\ exitStatus' = 1
    /\ pc' = "exited"
    /\ UNCHANGED <<fsVars, localVars, exc, ret, ghostVars>>

\* the tool is run again on the filesystem the last run left behind
NewProcess ==
    /\ pc = "exited"
    /\ runs < MaxRuns
    /\ runs' = runs + 1
    /\ prev' = [ran |-> pdf_path # None, ret |-> ret]
    /\ kind0' = kind
    /\ files0' = files
    /\ imgs0' = imgs
    /\ pc' = "idle"
    /\ pdf_path' = None
    /\ output_dir_arg' = None
    /\ output_dir' = None
    /\ base_name' = None
    /\ docOpen' = FALSE
    /\ total_pages' = 0
    /\ page_num' = 0
    /\ markdown_text' = ""
    /\ output_files' = <<>>
    /\ exc' = NoExc
    /\ ret' = NoRet
    /\ stdout' = <<>>
    /\ exitStatus' = -1
    /\ events' = <<>>
    /\ rendered' = [i \in {} |-> ""]
    /\ UNCHANGED fsVars

Next ==
    \/ Usage
    \/ Start
    \/ CheckExists
    \/ CheckSuffix
    \/ ResolveOutputDir
    \/ OpenDoc
    \/ CountPages
    \/ CloseDoc
    \/ MakeImagesDir
    \/ ForPage
    \/ RenderPage
    \/ WritePage
    \/ Return
    \/ MainReturn
    \/ MainExcept
    \/ NewProcess

Spec == Init /\ [][Next]_vars

TypeOK ==
    /\ pc \in {"idle", "exists", "suffix", "outdir", "open", "len", "close",
               "images", "for", "render", "write", "return", "main_ok",
               "except", "exited"}
    /\ page_num \in 0..MaxPages
    /\ runs \in 1..MaxRuns

\* ---- vocabulary of the properties -----------------------------------------
Last(s) == s[Len(s)]

\* the name ends in ".pdf" in some letter case and has a stem before it
PdfExtension(name) ==
    /\ Len(name) >= 5
    /\ name[Len(name) - 3] = "."
    /\ name[Len(name) - 2] \in {"p", "P"}
    /\ name[Len(name) - 1] \in {"d", "D"}
    /\ name[Len(name)] \in {"f", "F"}

\* the run's input fails validation
NotFoundInput == src.kind = "missing"
InvalidInput == src.kind # "missing" /\ ~PdfExtension(argv.pdf_path)
FailsValidation == NotFoundInput \/ InvalidInput

\* {base}: the name without its four-character extension
BaseOfName(name) == SubSeq(name, 1, Len(name) - 4)

TargetDir == IF argv.output_dir = None THEN Dot ELSE argv.output_dir
TargetImages ==
    IF argv.output_dir = None THEN ImagesName
    ELSE argv.output_dir \o <<"/">> \o ImagesName

IsDigits(s) == \A i \in 1..Len(s) : \E v \in 1..10 : DigitChar[v] = s[i]

RECURSIVE DecimalValue(_)
DecimalValue(s) ==
    IF s = <<>> THEN 0
    ELSE 10 * DecimalValue(SubSeq(s, 1, Len(s) - 1))
         + (CHOOSE v \in 0..9 : DigitChar[v + 1] = Last(s))

PagePrefix(base) == base \o <<"_", "p", "a", "g", "e", "_">>

\* n matches {base}_page_*.md
MatchesPageGlob(n, base) ==
    /\ Len(n) >= Len(PagePrefix(base)) + 3
    /\ SubSeq(n, 1, Len(PagePrefix(base))) = PagePrefix(base)
    /\ SubSeq(n, Len(n) - 2, Len(n)) = <<".", "m", "d">>

\* n is {base}_page_{k}.md with k in decimal, zero-padded to at least 3 digits
IsPageFileName(n, base, k) ==
    /\ MatchesPageGlob(n, base)
    /\ LET d == SubSeq(n, Len(PagePrefix(base)) + 1, Len(n) - 3)
       IN /\ IsDigits(d)
          /\ Len(d) >= 3
          /\ Len(d) > 3 => d[1] # "0"
          /\ DecimalValue(d) = k

IsMarkdown(n) == Len(n) >= 3 /\ SubSeq(n, Len(n) - 2, Len(n)) = <<".", "m", "d">>

\* the path p names the file n of directory dir
DenotesFile(p, dir, n) == p = (IF dir = Dot THEN n ELSE dir \o <<"/">> \o n)

CountEvents(op, j) ==
    Cardinality({i \in 1..Len(events) :
                    events[i].op = op /\ events[i].pages = <<j>>})

\* nothing the run found in the filesystem has been removed
NothingDeleted ==
    /\ \A d \in AllDirs : kind0[d] # "absent" => kind[d] = kind0[d]
    /\ \A d \in OutDirs : DOMAIN files0[d] \subseteq DOMAIN files[d]
    /\ \A d \in OutDirs : imgs0[d] \subseteq imgs[d]

\* ---- C1 ---------------------------------------------------------------------
NoPageFilesBefore ==
    \A n \in DOMAIN files0[TargetDir] :
        ~MatchesPageGlob(n, BaseOfName(argv.pdf_path))

ReturnsThePagePaths ==
    /\ Len(ret.value) = src.pages
    /\ \A k \in 1..src.pages :
          \E n \in DOMAIN files[TargetDir] :
             /\ IsPageFileName(n, BaseOfName(argv.pdf_path), k)
             /\ DenotesFile(ret.value[k], TargetDir, n)

\* page numbers around the widths of two, three and four digits
WidePageNumbers == {9, 10, 99, 100, 999, 1000, 1001}

\* C1 as claimed: after a normal return over a directory that held no
\* {base}_page_*.md file, the result is the N page paths in order and the
\* Markdown files of the output directory are exactly those N files.
C1_MarkdownFilesAreExactlyThePages ==
    (ret.returned /\ NoPageFilesBefore) =>
        /\ ReturnsThePagePaths
        /\ \A n \in DOMAIN files[TargetDir] :
              IsMarkdown(n) =>
                 \E k \in 1..src.pages :
                    IsPageFileName(n, BaseOfName(argv.pdf_path), k)

\* C1 amended: after a normal return over a directory that held no
\* {base}_page_*.md file, the result is the N page paths in ascending page
\* order, and the {base}_page_*.md files of the output directory are exactly
\* those N files (none when N = 0).  The name of page k stays of that form
\* where k needs fewer or more than three digits.
C1_PageFilesAreExactlyThePages ==
    (ret.returned /\ NoPageFilesBefore) =>
        /\ ReturnsThePagePaths
        /\ \A k \in WidePageNumbers :
              IsPageFileName(
                 OutputFilename(BaseOfName(argv.pdf_path), k - 1),
                 BaseOfName(argv.pdf_path), k)
        /\ \A n \in DOMAIN files[TargetDir] :
              MatchesPageGlob(n, BaseOfName(argv.pdf_path)) =>
                 \E k \in 1..src.pages :
                    IsPageFileName(n, BaseOfName(argv.pdf_path), k)

C1_Witness ==
    /\ ret.returned
    /\ NoPageFilesBefore
    /\ Len(ret.value) >= 2
    /\ argv.output_dir # None

\* ---- C2 ---------------------------------------------------------------------
\* C2: a run whose input fails validation never changes the filesystem,
\* never opens the document and never calls the renderer, with or without
\* an output directory argument.
C2_ValidationFailureHasNoSideEffect ==
    FailsValidation =>
        /\ kind = kind0
        /\ files = files0
        /\ imgs = imgs0
        /\ events = <<>>
        /\ ~docOpen

C2_Witness ==
    /\ FailsValidation
    /\ pc = "exited"
    /\ exc # NoExc
    /\ argv.output_dir # None
    /\ kind[argv.output_dir] = "absent"

\* ---- C3 ---------------------------------------------------------------------
PastValidation ==
    pdf_path # None /\ pc \notin {"idle", "exists", "suffix"}

\* C3: once validation is over, a missing path has raised FileNotFoundError
\* (whatever its extension), an existing path without a .pdf extension has
\* raised ValueError, and an existing path with a .pdf extension in any
\* letter case has raised neither and gone on.
C3_ValidationOutcome ==
    PastValidation =>
        /\ NotFoundInput =>
              exc = "FileNotFoundError" /\ output_dir = None
        /\ InvalidInput => exc = "ValueError" /\ output_dir = None
        /\ ~FailsValidation =>
              /\ pc = "outdir" \/ output_dir # None
              /\ (output_dir = None => exc = NoExc)

C3_Witness ==
    /\ PastValidation
    /\ src.kind = "file"
    /\ argv.pdf_path = <<"R", ".", "P", "d", "F">>
    /\ pc = "open"

\* ---- C4 ---------------------------------------------------------------------
\* the run has raised out of a render call or a file write
FailedPageStep ==
    /\ exc # NoExc
    /\ events # <<>>
    /\ Last(events).op \in {"render", "write"}

FailedIndex == Last(events).pages[1]

\* C4: when the render call or the file write of page index k fails, the
\* run is over: control is in main's handler or the process has exited,
\* nothing was returned, no call or write names an index above k, index k
\* was rendered once and written at most once, the files of indices below
\* k hold the text rendered for them, and nothing was deleted.
C4_FailFastKeepsEarlierPages ==
    FailedPageStep =>
        /\ pc \in {"except", "exited"}
        /\ ~ret.returned
        /\ \A i \in 1..Len(events) :
              events[i].pages # <<>> => events[i].pages[1] <= FailedIndex
        /\ CountEvents("render", FailedIndex) = 1
        /\ CountEvents("write", FailedIndex) <= 1
        /\ \A j \in 0..(FailedIndex - 1) :
              /\ j \in DOMAIN rendered
              /\ \E n \in DOMAIN files[TargetDir] :
                    /\ IsPageFileName(n, BaseOfName(argv.pdf_path), j + 1)
                    /\ files[TargetDir][n] = rendered[j]
        /\ NothingDeleted

C4_Witness ==
    /\ FailedPageStep
    /\ FailedIndex >= 1
    /\ Last(events).op = "write"
    /\ pc = "exited"

\* ---- C5 ---------------------------------------------------------------------
ErrorLines ==
    {i \in 1..Len(stdout) :
        stdout[i] \in {"Error: ", "Error during conversion: "}}

\* C5 as claimed: a failed run exits with status 1 after one error line,
\* prefixed "Error: " when validation failed and "Error during conversion: "
\* for every failure after validation, whatever the exception's type.
C5_PrefixFollowsThePhase ==
    (pc = "exited" /\ exc # NoExc) =>
        /\ exitStatus = 1
        /\ Cardinality(ErrorLines) = 1
        /\ Last(stdout) = IF FailsValidation THEN "Error: "
                          ELSE "Error during conversion: "

\* ---- C6 ---------------------------------------------------------------------
\* C6 as claimed: unless the source is an existing regular file with a .pdf
\* extension, no directory is created and no file is written.
C6_OnlyRegularFilesChangeTheDisk ==
    (src.kind # "file" \/ ~PdfExtension(argv.pdf_path)) =>
        /\ kind = kind0
        /\ files = files0

\* ---- C7 ---------------------------------------------------------------------
IsPageEvent(e) == e.op \in {"render", "write"}

\* C7: in a run that has returned, the render calls and file writes are
\* render 0, write 0, render 1, write 1, ..., N of each, and the call for j
\* asks for pages [j] with write_images on and the run's images directory.
C7_OneRenderPerPageInOrder ==
    ret.returned =>
        LET rw == SelectSeq(events, IsPageEvent)
        IN /\ Len(rw) = 2 * src.pages
           /\ \A j \in 0..(src.pages - 1) :
                 /\ rw[2 * j + 1] = [op |-> "render", pages |-> <<j>>,
                                     path |-> TargetImages,
                                     write_images |-> TRUE]
                 /\ rw[2 * j + 2].op = "write"
                 /\ rw[2 * j + 2].pages = <<j>>

C7_Witness ==
    /\ ret.returned
    /\ src.pages >= 2
    /\ CountEvents("render", 1) = 1

\* ---- C8 ---------------------------------------------------------------------
\* the same command is run again after a run that returned, so over the
\* output directory and images directory that run left
RerunOnExisting ==
    /\ runs >= 2
    /\ prev.ret.returned
    /\ pdf_path # None
    /\ kind0[TargetDir] = "dir"
    /\ kind0[TargetImages] = "dir"

IsThisRunsPageFile(d, n) ==
    /\ d = TargetDir
    /\ \E k \in 1..src.pages : IsPageFileName(n, BaseOfName(argv.pdf_path), k)

\* C8: a rerun never fails with FileExistsError, leaves every file that is
\* not one of its page files present and unchanged, and when it returns it
\* returns what the first run returned, each page file holding the text
\* rendered in this run.
C8_RerunIsIdempotent ==
    RerunOnExisting =>
        /\ exc # "FileExistsError"
        /\ \A d \in OutDirs : \A n \in DOMAIN files0[d] :
              ~IsThisRunsPageFile(d, n) =>
                 n \in DOMAIN files[d] /\ files[d][n] = files0[d][n]
        /\ ret.returned =>
              /\ ret.value = prev.ret.value
              /\ \A j \in 0..(src.pages - 1) :
                    \E n \in DOMAIN files[TargetDir] :
                       /\ IsPageFileName(n, BaseOfName(argv.pdf_path), j + 1)
                       /\ files[TargetDir][n] = rendered[j]

C8_Witness ==
    /\ RerunOnExisting
    /\ ret.returned
    /\ NotesMd \in DOMAIN files0[TargetDir]
    /\ \E n \in DOMAIN files0[TargetDir] :
          /\ IsThisRunsPageFile(TargetDir, n)
          /\ files[TargetDir][n] # files0[TargetDir][n]

\* ---- C9 ---------------------------------------------------------------------
\* C9: every page this run has written was written by one write, and from
\* then on its file holds the text the render call for that index returned.
C9_PageFileHoldsItsOwnText ==
    \A j \in 0..(Len(output_files) - 1) :
        /\ CountEvents("write", j) = 1
        /\ j \in DOMAIN rendered
        /\ \E n \in DOMAIN files[TargetDir] :
              /\ IsPageFileName(n, BaseOfName(argv.pdf_path), j + 1)
              /\ files[TargetDir][n] = rendered[j]
              /\ DenotesFile(output_files[j + 1], TargetDir, n)

C9_Witness ==
    /\ Len(output_files) >= 2
    /\ rendered[0] # rendered[1]
    /\ pc = "exited"

\* ---- C10 --------------------------------------------------------------------
EventAt(i, op, path) == events[i].op = op /\ events[i].path = path

\* C10: the document is opened only once the output directory exists (its
\* mkdir came first when one was supplied), the images directory is made
\* only after the document was opened and closed, and a render call or file
\* write comes only after that; the handle is closed and both directories
\* exist during every render and write and on every return.
C10_SetupPrecedesTheLoop ==
    /\ \A i \in 1..Len(events) :
          /\ events[i].op = "open" =>
                /\ kind[TargetDir] = "dir"
                /\ argv.output_dir # None =>
                      \E a \in 1..(i - 1) : EventAt(a, "mkdir", TargetDir)
          /\ EventAt(i, "mkdir", TargetImages) =>
                \E a \in 1..(i - 1) : \E b \in (a + 1)..(i - 1) :
                   events[a].op = "open" /\ events[b].op = "close"
          /\ IsPageEvent(events[i]) =>
                \E c \in 1..(i - 1) : EventAt(c, "mkdir", TargetImages)
    /\ (pc \in {"render", "write"} \/ ret.returned) =>
          /\ ~docOpen
          /\ kind[TargetDir] = "dir"
          /\ kind[TargetImages] = "dir"

C10_Witness ==
    /\ ret.returned
    /\ src.pages = 0
    /\ argv.output_dir # None
    /\ kind0[DirA] = "absent"
    /\ kind[Join(DirAO, ImagesName)] = "dir"
====
